---- MODULE Spec2Model ----
(***************************************************************************)
(* Model of openshift-pod-watcher: the pod store (src/src/db.py), the      *)
(* startup reconciliation and the watch loop (src/src/watcher.py), the     *)
(* process entry (src/src/main.py), and the cluster they observe.          *)
(*                                                                         *)
(* Representation.                                                         *)
(*   Python None / SQL NULL  : the empty tuple None; a present value x of  *)
(*                             an optional field is the 1-tuple <<x>>.     *)
(*   aware datetime          : [local |-> wall reading, off |-> UTC        *)
(*                             offset]; its instant is local - off.        *)
(*   ISO-8601 string         : the pair <<local, off>> it renders.         *)
(*   text                    : a tuple of one-character strings, so that   *)
(*                             startswith and re.search can be computed.   *)
(*   quantities              : thousandths (so that 10**-3 is exact).      *)
(***************************************************************************)
EXTENDS Integers, Sequences, FiniteSets, TLC

VARIABLES
    clock,            \* wall clock read by now_utc_iso()
    pods,             \* cluster: uid -> pod object
    log,              \* cluster change log; resource version n = first n entries
    pc,               \* control point of the watcher process
    exitCause,        \* why the process last left watch_loop
    starts,           \* process lifetimes begun so far
    db,               \* table pods of the sqlite store: a set of rows
    seen_running,     \* watcher.py local seen_running
    finished_pods,    \* watcher.py local finished_pods
    resource_version, \* watcher.py local resource_version
    guessed_end_time, \* startup_reconciliation local guessed_end_time
    snapshot,         \* startup_reconciliation local cluster_pods_map
    todo,             \* snapshot uids the backfill loop has not visited yet
    pending,          \* uid inserted by the backfill branch and not yet closed
    buffer,           \* events the current subscription has queued
    cursor,           \* log position the current subscription has streamed to
    lastOp,           \* the store call(s) made by the last step
    realCloses,       \* uid -> update_pod_end_time(.., guessed=False) calls so far
    malformed         \* uids of the pods whose spec holds a quantity that does not parse

vars == << clock, pods, log, pc, exitCause, starts, db, seen_running,
           finished_pods, resource_version, guessed_end_time, snapshot, todo,
           pending, buffer, cursor, lastOp, realCloses, malformed >>

-----------------------------------------------------------------------------
(* Bounds of the model *)

MaxClock == 1
MaxEvents == 4
MaxStarts == 2
MaxCount == 2

-----------------------------------------------------------------------------
(* Values *)

None == << >>
Some(x) == << x >>

Dt(l, o) == [local |-> l, off |-> o]

Instant(d) == d.local - d.off

\* datetime.astimezone(timezone.utc)
AsTimezoneUtc(d) == [local |-> d.local - d.off, off |-> 0]

\* datetime.isoformat()
Isoformat(d) == << d.local, d.off >>

\* utils.now_utc_iso
NowUtcIso == Isoformat(Dt(clock, 0))

RECURSIVE MinDt(_)
\* min() in the place of max(): the earliest finished_at
MinDt(ds) ==
    IF Len(ds) = 1 THEN ds[1]
    ELSE LET m == MinDt(Tail(ds))
         IN IF Instant(ds[1]) <= Instant(m) THEN ds[1] ELSE m

RECURSIVE MaxDt(_)
\* max() over a non-empty list of aware datetimes: the first of the latest
MaxDt(ds) ==
    IF Len(ds) = 1 THEN ds[1]
    ELSE LET m == MaxDt(Tail(ds))
         IN IF Instant(ds[1]) >= Instant(m) THEN ds[1] ELSE m

StartsWith(s, p) == Len(p) <= Len(s) /\ SubSeq(s, 1, Len(p)) = p

-----------------------------------------------------------------------------
(* src/src/config.py *)

TERMINAL_PHASES == {"Succeeded", "Failed"}
STARTING_PHASES == {"Pending", "Running"}

IGNORED_NAMESPACES ==
    { <<"o","p","e","n","s","h","i","f","t">>,
      <<"k","u","b","e","-","s","y","s","t","e","m">>,
      <<"k","u","b","e","-","p","u","b","l","i","c">>,
      <<"k","u","b","e","-","n","o","d","e","-","l","e","a","s","e">>,
      <<"d","e","f","a","u","l","t">>,
      <<"i","s","t","i","o","-","s","y","s","t","e","m">>,
      <<"o","p","e","n","s","h","i","f","t","-","m","a","r","k","e","t","p","l","a","c","e">>,
      <<"n","v","i","d","i","a","-","g","p","u","-","o","p","e","r","a","t","o","r">>,
      <<"o","p","e","n","-","c","l","u","s","t","e","r","-","m","a","n","a","g","e","m","e","n","t","-","a","g","e","n","t","-","a","d","d","o","n">>,
      <<"o","p","e","n","-","c","l","u","s","t","e","r","-","m","a","n","a","g","e","m","e","n","t","-","a","g","e","n","t">> }

IGNORED_NAMESPACE_PREFIXES ==
    { <<"o","p","e","n","s","h","i","f","t","-">>, <<"k","u","b","e","-">> }

\* the exclusion test without the prefixes
IsIgnoredNamespaceByName(ns) == ns \in IGNORED_NAMESPACES

\* ns in IGNORED_NAMESPACES or ns.startswith(IGNORED_NAMESPACE_PREFIXES)
IsIgnoredNamespace(ns) ==
    \/ ns \in IGNORED_NAMESPACES
    \/ \E p \in IGNORED_NAMESPACE_PREFIXES : StartsWith(ns, p)

-----------------------------------------------------------------------------
(* src/src/utils.py: parse_openshift_resource *)

Digits == {"0","1","2","3","4","5","6","7","8","9"}

DigitVal(c) ==
    CASE c = "0" -> 0 [] c = "1" -> 1 [] c = "2" -> 2 [] c = "3" -> 3
      [] c = "4" -> 4 [] c = "5" -> 5 [] c = "6" -> 6 [] c = "7" -> 7
      [] c = "8" -> 8 [] c = "9" -> 9

RECURSIVE DigitsEnd(_, _)
\* last index of the run of digits of s that starts at index i
DigitsEnd(s, i) ==
    IF i < Len(s) /\ s[i + 1] \in Digits THEN DigitsEnd(s, i + 1) ELSE i

RECURSIVE IntOfDigits(_)
IntOfDigits(s) ==
    IF s = << >> THEN 0
    ELSE 10 * IntOfDigits(SubSeq(s, 1, Len(s) - 1)) + DigitVal(s[Len(s)])

\* the suffix table, in thousandths
SuffixMilli(u) ==
    CASE u = <<"K","i">> -> (2^10) * 1000
      [] u = <<"M","i">> -> (2^20) * 1000
      [] u = <<"G","i">> -> (2^30) * 1000
      [] u = <<"T","i">> -> (2^40) * 1000
      [] u = <<"P","i">> -> (2^50) * 1000
      [] u = <<"E","i">> -> (2^60) * 1000
      [] u = <<"m">> -> 1
      [] u = <<"K">> -> (10^3) * 1000
      [] u = <<"M">> -> (10^6) * 1000
      [] u = <<"G">> -> (10^9) * 1000
      [] u = <<"T">> -> (10^12) * 1000
      [] u = <<"P">> -> (10^15) * 1000
      [] u = <<"E">> -> (10^18) * 1000

\* the alternation (m|Ki|Mi|Gi|Ti|Pi|Ei|K|M|G|T|P|E)? tried at index i of s:
\* the first alternative that matches, or None
SuffixAt(s, i) ==
    LET one == IF i <= Len(s) THEN SubSeq(s, i, i) ELSE << >>
        two == IF i + 1 <= Len(s) THEN SubSeq(s, i, i + 1) ELSE << >>
    IN  IF one = <<"m">> THEN Some(one)
        ELSE IF two \in { <<"K","i">>, <<"M","i">>, <<"G","i">>, <<"T","i">>,
                          <<"P","i">>, <<"E","i">> } THEN Some(two)
        ELSE IF one \in { <<"K">>, <<"M">>, <<"G">>, <<"T">>, <<"P">>, <<"E">> }
             THEN Some(one)
        ELSE None

\* a raised ValueError; a returned number n is the 1-tuple <<n>>
ValueError == << "ValueError", "raised" >>

\* parse_openshift_resource; ValueError when re.search finds no digit.
\* The integer default 0 of resources.get(.., 0) is the text "0" here: both
\* take the final return 0.
ParseOpenshiftResource(v) ==
    IF v # << >> /\ v # <<"0">>
    THEN LET at == { i \in 1..Len(v) : v[i] \in Digits }
         IN IF at = {} THEN ValueError
            ELSE LET i == CHOOSE k \in at : \A j \in at : k <= j
                     e == DigitsEnd(v, i)
                     value == IntOfDigits(SubSeq(v, i, e))
                     unit == SuffixAt(v, e + 1)
                 IN IF unit # None THEN << value * SuffixMilli(unit[1]) >>
                    ELSE << value * 1000 >>
    ELSE << 0 >>

\* int(res.get("nvidia.com/gpu", 0)), in thousandths
IntOf(v) ==
    IF v # << >> /\ \A i \in 1..Len(v) : v[i] \in Digits
    THEN << IntOfDigits(v) * 1000 >> ELSE ValueError

-----------------------------------------------------------------------------
(* The pods of the cluster: what the API server reports about them *)

Uids == {"u1", "u2"}

\* the namespaces pods are created in: one the watcher tracks, one it ignores
TrackedNamespace == <<"r","h","o","d","s","-","n","o","t","e","b","o","o","k","s">>

Namespaces ==
    { TrackedNamespace,
      <<"o","p","e","n","s","h","i","f","t","-","m","o","n","i","t","o","r","i","n","g">> }

\* pod.metadata.name
NameOf(u) == << "p", "o", "d", "-", u >>

NodeName == "node1"

Requests(c, m, g) == [cpu |-> c, memory |-> m, gpu |-> g]

\* pod.spec: the requests of the init containers and of the main containers
PodSpec(u) ==
    IF u = "u1"
    THEN [ init_containers |-> << Requests(Some(<<"5","0","0","m">>), None, None) >>,
           containers |-> << Requests(Some(<<"2","5","0","m">>),
                                      Some(<<"1","K","i">>), Some(<<"1">>)) >> ]
    ELSE [ init_containers |-> << >>,
           containers |-> << Requests(Some(<<"1">>), Some(<<"2","K">>), None),
                             Requests(Some(<<"2","5","0","m">>), None, None) >> ]

\* dict.get(key, default) on a requests mapping
Get(field, default) == IF field = None THEN default ELSE field[1]

Max(a, b) == IF a >= b THEN a ELSE b

RECURSIVE InitMax(_, _)
\* watcher.py:33-38, one resource: the largest init-container request
InitMax(cs, key) ==
    IF cs = << >> THEN << 0 >>
    ELSE LET v == ParseOpenshiftResource(Get(cs[Len(cs)][key], <<"0">>))
             r == InitMax(SubSeq(cs, 1, Len(cs) - 1), key)
         IN IF v = ValueError \/ r = ValueError THEN ValueError
            ELSE << Max(r[1], v[1]) >>

RECURSIVE MainSum(_, _)
\* watcher.py:40-45, one resource: the sum of the main-container requests
MainSum(cs, key) ==
    IF cs = << >> THEN << 0 >>
    ELSE LET raw == Get(cs[Len(cs)][key], <<"0">>)
             v == IF key = "gpu" THEN IntOf(raw) ELSE ParseOpenshiftResource(raw)
             r == MainSum(SubSeq(cs, 1, Len(cs) - 1), key)
         IN IF v = ValueError \/ r = ValueError THEN ValueError
            ELSE << r[1] + v[1] >>

\* watcher.effective_pod_requests: (cpu, memory, gpu), or ValueError
EffectivePodRequests(spec) ==
    LET one(key) ==
            LET i == InitMax(spec.init_containers, key)
                m == MainSum(spec.containers, key)
            IN IF i = ValueError \/ m = ValueError THEN ValueError
               ELSE << Max(m[1], i[1]) >>
        c == one("cpu")
        m == one("memory")
        g == one("gpu")
    IN IF c = ValueError \/ m = ValueError \/ g = ValueError
       THEN ValueError
       ELSE << c[1], m[1], g[1] >>

\* effective_pod_requests(pod) for the pod of each uid (a pod's spec does not
\* change)
RequestsOf == [u \in Uids |-> EffectivePodRequests(PodSpec(u))]

\* pod.spec of a pod whose memory request is the text "abc"
MalformedSpec(u) ==
    [ init_containers |-> << >>,
      containers |-> << Requests(Some(<<"1">>), Some(<<"a","b","c">>), None) >> ]

RequestsOfMalformed == [u \in Uids |-> EffectivePodRequests(MalformedSpec(u))]

\* effective_pod_requests(pod) for the pod of the uid
Requested(u) == IF u \in malformed THEN RequestsOfMalformed[u] ELSE RequestsOf[u]

PodObject(u, ns, ph, n, st, cs, ics) ==
    [ uid |-> u, namespace |-> ns, phase |-> ph, node |-> n, start_time |-> st,
      container_statuses |-> cs, init_container_statuses |-> ics ]

\* a pod that is not in the cluster is held as an object whose phase is
\* "NotCreated" or "Deleted"; such an object is never listed or streamed
Absent(ph) == PodObject("", << >>, ph, None, None, << >>, << >>)

Exists(u) == pods[u].phase \notin {"NotCreated", "Deleted"}

Event(t, o) == [type |-> t, object |-> o]

\* the container statuses a pod can report when it reaches a terminal phase
\* at wall-clock reading c: each status is the finished_at of its terminated
\* state, or None when the container has no terminated state
TerminalStatuses(c, ph) ==
    { [cs |-> << >>, ics |-> << >>],
      [cs |-> << Some(Dt(c - 1, 0)), Some(Dt(c - 2, -2)) >>, ics |-> << >>] }
    \cup IF ph = "Failed"
         THEN { [cs |-> << None >>, ics |-> << Some(Dt(c, 0)) >>] }
         ELSE { }

Publish(u, t, o) ==
    /\ Len(log) < MaxEvents
    /\ log' = Append(log, Event(t, o))
    /\ pods' = [pods EXCEPT ![u] = IF t = "DELETED" THEN Absent("Deleted") ELSE o]

ClusterFrame ==
    UNCHANGED << malformed, clock, pc, exitCause, starts, db, seen_running, finished_pods,
                 resource_version, guessed_end_time, snapshot, todo, pending,
                 buffer, cursor, lastOp, realCloses >>

\* a pod is created: Pending, not yet scheduled
CreatePod(u) ==
    /\ pods[u].phase = "NotCreated"
    /\ \E ns \in Namespaces :
         Publish(u, "ADDED", PodObject(u, ns, "Pending", None, None, << >>, << >>))
    /\ ClusterFrame

\* the scheduler binds the pod to a node
BindPod(u) ==
    /\ Exists(u) /\ pods[u].phase = "Pending" /\ pods[u].node = None
    /\ Publish(u, "MODIFIED", [pods[u] EXCEPT !.node = Some(NodeName)])
    /\ ClusterFrame

\* the kubelet admits the pod and sets status.startTime
StartPod(u) ==
    /\ Exists(u) /\ pods[u].phase = "Pending"
    /\ pods[u].node # None /\ pods[u].start_time = None
    /\ Publish(u, "MODIFIED", [pods[u] EXCEPT !.start_time = Some(Dt(clock, 0))])
    /\ ClusterFrame

\* the main containers start
RunPod(u) ==
    /\ Exists(u) /\ pods[u].phase = "Pending" /\ pods[u].start_time # None
    /\ Publish(u, "MODIFIED", [pods[u] EXCEPT !.phase = "Running"])
    /\ ClusterFrame

\* the pod reaches a terminal phase: from Running, from Pending when the
\* run was too short for a status update to report Running, or Failed
\* before the kubelet started it
TerminatePod(u) ==
    /\ Exists(u)
    /\ pods[u].phase \in {"Pending", "Running"}
    /\ \E ph \in TERMINAL_PHASES :
         /\ pods[u].start_time = None => ph = "Failed"
         /\ \E s \in TerminalStatuses(clock, ph) :
              /\ pods[u].start_time = None => s.cs = << >> /\ s.ics = << >>
              /\ Publish(u, "MODIFIED",
                         [pods[u] EXCEPT !.phase = ph,
                                         !.container_statuses = s.cs,
                                         !.init_container_statuses = s.ics])
    /\ ClusterFrame

\* the pod object is removed; the event carries its last state
DeletePod(u) ==
    /\ Exists(u)
    /\ Publish(u, "DELETED", pods[u])
    /\ ClusterFrame

Tick ==
    /\ clock < MaxClock
    /\ clock' = clock + 1
    /\ UNCHANGED << malformed, pods, log, pc, exitCause, starts, db, seen_running,
                    finished_pods, resource_version, guessed_end_time, snapshot,
                    todo, pending, buffer, cursor, lastOp, realCloses >>

-----------------------------------------------------------------------------
(* src/src/db.py: PodDatabase *)

\* the methods class PodDatabase defines
PodDatabaseMethods ==
    { "__init__", "insert_new_pod", "update_pod_end_time", "get_finished_pods",
      "get_running_pods", "close" }

\* the row INSERT writes: end_time is NULL, end_time_guessed takes DEFAULT 0
NewRow(uid, namespace, name, node, cpu, memory, gpu, start_time) ==
    [ uid |-> uid, namespace |-> namespace, name |-> name, node |-> node,
      cpu |-> cpu, memory |-> memory, gpu |-> gpu, start_time |-> start_time,
      end_time |-> None, end_time_guessed |-> 0 ]

\* INSERT OR REPLACE in the place of INSERT OR IGNORE
InsertOrReplacePod(rows, uid, namespace, name, node, cpu, memory, gpu, start_time) ==
    { r \in rows : r.uid # uid }
        \cup { NewRow(uid, namespace, name, node, cpu, memory, gpu, start_time) }

\* PodDatabase.insert_new_pod: INSERT OR IGNORE under uid TEXT PRIMARY KEY
InsertNewPod(rows, uid, namespace, name, node, cpu, memory, gpu, start_time) ==
    IF \E r \in rows : r.uid = uid
    THEN rows
    ELSE rows \cup { NewRow(uid, namespace, name, node, cpu, memory, gpu, start_time) }

\* int(guessed)
IntOfBool(b) == IF b THEN 1 ELSE 0

\* PodDatabase.update_pod_end_time: UPDATE .. WHERE uid = ?
UpdatePodEndTime(rows, uid, end_time, guessed) ==
    { IF r.uid = uid
      THEN [r EXCEPT !.end_time = end_time, !.end_time_guessed = IntOfBool(guessed)]
      ELSE r : r \in rows }

\* SELECT uid FROM pods with the WHERE clause left out
GetAllPods(rows) == { r.uid : r \in rows }

\* PodDatabase.get_finished_pods
GetFinishedPods(rows) == { r.uid : r \in { x \in rows : x.end_time # None } }

\* PodDatabase.get_running_pods
GetRunningPods(rows) == { r.uid : r \in { x \in rows : x.end_time = None } }

-----------------------------------------------------------------------------
(* The record of the store calls a step makes *)

InsertCall(uid, row) == [op |-> "insert_new_pod", uid |-> uid, row |-> row]

UpdateCall(uid, end_time, guessed) ==
    [op |-> "update_pod_end_time", uid |-> uid,
     row |-> [end_time |-> end_time, guessed |-> guessed]]

Op(branch, object, calls) == [branch |-> branch, object |-> object, calls |-> calls]

NoOp == Op("none", Absent("NotCreated"), << >>)

\* the count of real (guessed=False) end-time writes, after one more call
Counted(uid, guessed) ==
    IF guessed THEN realCloses
    ELSE [realCloses EXCEPT ![uid] = IF @ < MaxCount THEN @ + 1 ELSE @]

-----------------------------------------------------------------------------
(* src/src/watcher.py: get_pod_finished_time *)

\* (container_statuses or []) + (init_container_statuses or [])
AllStatuses(pod) == pod.container_statuses \o pod.init_container_statuses

RECURSIVE FinishTimes(_)
\* the finished_at of every status that has one, converted to UTC
FinishTimes(statuses) ==
    IF statuses = << >> THEN << >>
    ELSE IF Head(statuses) # None
         THEN << AsTimezoneUtc(Head(statuses)[1]) >> \o FinishTimes(Tail(statuses))
         ELSE FinishTimes(Tail(statuses))

\* get_pod_finished_time: Some(ISO string) or None
GetPodFinishedTime(pod) ==
    IF pod.phase \notin TERMINAL_PHASES THEN None
    ELSE IF AllStatuses(pod) = << >> THEN None
    ELSE LET all_finish_times == FinishTimes(AllStatuses(pod))
         IN IF all_finish_times # << >>
            THEN Some(Isoformat(MaxDt(all_finish_times)))
            ELSE None

\* start.astimezone(timezone.utc).isoformat() if start else None
StartIso(pod) ==
    IF pod.start_time # None
    THEN Some(Isoformat(AsTimezoneUtc(pod.start_time[1])))
    ELSE None

\* the (end_time, guessed) pair written for a pod in a terminal phase:
\* the finished time when there is one, else the given estimate
ResolveEndTime(pod, estimate) ==
    LET end_time == GetPodFinishedTime(pod)
    IN IF end_time = None
       THEN [end_time |-> Some(estimate), guessed |-> TRUE]
       ELSE [end_time |-> end_time, guessed |-> FALSE]

-----------------------------------------------------------------------------
(* The resource version: the feed position *)

Rv(n) == << n >>

\* resource_version = ""
RvUnknown == << >>

\* the order in which the API server lists pods
ListRank(u) == CASE u = "u1" -> 1 [] u = "u2" -> 2

First(S) == CHOOSE u \in S : \A v \in S : ListRank(u) <= ListRank(v)

RECURSIVE Listed(_)
\* the uids of S in listing order
Listed(S) == IF S = {} THEN << >> ELSE << First(S) >> \o Listed(S \ {First(S)})

\* api.list_pod_for_all_namespaces(watch=False, resource_version="").items,
\* keyed by uid
ClusterPodsMap == [u \in { v \in Uids : Exists(v) } |-> pods[u]]

-----------------------------------------------------------------------------
(* The process: src/src/main.py *)

\* the locals of watch_loop and startup_reconciliation of a process that
\* is not running
MemoryCleared ==
    /\ seen_running' = {}
    /\ finished_pods' = {}
    /\ resource_version' = RvUnknown
    /\ guessed_end_time' = None
    /\ snapshot' = << >>
    /\ todo' = {}
    /\ pending' = None
    /\ buffer' = << >>
    /\ cursor' = 0

\* an exception no handler of watch_loop or main catches ends the process
Dies(cause) ==
    /\ pc' = "stopped"
    /\ exitCause' = cause
    /\ MemoryCleared

\* SIGINT or SIGTERM: handle_interrupt raises KeyboardInterrupt, main closes
\* the store and exits with status 0. The history records an exit taken
\* between the insert and the close of a backfill
Shutdown ==
    /\ pc # "stopped"
    /\ Dies("KeyboardInterrupt")
    /\ lastOp' = IF pc = "backfill_close"
                 THEN Op("interrupted", snapshot[pending[1]], << >>)
                 ELSE NoOp
    /\ UNCHANGED << malformed, clock, pods, log, starts, db, realCloses >>

-----------------------------------------------------------------------------
(* src/src/watcher.py: startup_reconciliation *)

\* lines 86-96, and the else of line 116: no zombie is found
ReconcileBegin ==
    /\ pc = "stopped"
    /\ starts < MaxStarts
    /\ GetRunningPods(db) \ DOMAIN ClusterPodsMap = {}
    /\ starts' = starts + 1
    /\ exitCause' = "none"
    /\ snapshot' = ClusterPodsMap
    /\ resource_version' = Rv(Len(log))
    /\ seen_running' = GetRunningPods(db)
    /\ finished_pods' = GetFinishedPods(db)
    /\ guessed_end_time' = Some(NowUtcIso)
    /\ todo' = DOMAIN ClusterPodsMap
    /\ pc' = "backfill"
    /\ lastOp' = NoOp
    /\ UNCHANGED << malformed, clock, pods, log, db, pending, buffer, cursor, realCloses >>

\* lines 86-103 with a zombie: pod_database.get_pod_metadata is looked up on
\* a class that does not define it, and the AttributeError leaves watch_loop
\* and main
ReconcileZombies ==
    /\ pc = "stopped"
    /\ starts < MaxStarts
    /\ GetRunningPods(db) \ DOMAIN ClusterPodsMap # {}
    /\ "get_pod_metadata" \notin PodDatabaseMethods
    /\ starts' = starts + 1
    /\ Dies("AttributeError")
    /\ lastOp' = Op("zombie", Absent("Deleted"), << >>)
    /\ UNCHANGED << malformed, clock, pods, log, db, realCloses >>

\* an iteration of the backfill loop that leaves by continue, or falls
\* through with no branch taken
SkipItem(branch, uid, pod) ==
    /\ todo' = todo \ {uid}
    /\ lastOp' = Op(branch, pod, << >>)
    /\ UNCHANGED << pc, exitCause, db, seen_running, finished_pods,
                    resource_version, guessed_end_time, snapshot, pending,
                    buffer, cursor, realCloses >>

\* the stale branch without seen_running.discard(uid)
StaleItemKeptRunning(uid, pod, w) ==
    /\ db' = UpdatePodEndTime(db, uid, w.end_time, w.guessed)
    /\ realCloses' = Counted(uid, w.guessed)
    /\ finished_pods' = finished_pods \cup {uid}
    /\ todo' = todo \ {uid}
    /\ lastOp' = Op("stale", pod, << UpdateCall(uid, w.end_time, w.guessed) >>)
    /\ UNCHANGED << pc, exitCause, seen_running, resource_version,
                    guessed_end_time, snapshot, pending, buffer, cursor >>

\* lines 134-147 and 167: the stale branch
StaleItem(uid, pod, w) ==
    /\ db' = UpdatePodEndTime(db, uid, w.end_time, w.guessed)
    /\ realCloses' = Counted(uid, w.guessed)
    /\ seen_running' = seen_running \ {uid}
    /\ finished_pods' = finished_pods \cup {uid}
    /\ todo' = todo \ {uid}
    /\ lastOp' = Op("stale", pod, << UpdateCall(uid, w.end_time, w.guessed) >>)
    /\ UNCHANGED << pc, exitCause, resource_version, guessed_end_time, snapshot,
                    pending, buffer, cursor >>

\* lines 154-156: the insert of the backfill branch
BackfillInsert(uid, pod, requests, start_iso) ==
    /\ db' = InsertNewPod(db, uid, pod.namespace, NameOf(uid), pod.node,
                          requests[1], requests[2], requests[3], start_iso)
    /\ pending' = Some(uid)
    /\ pc' = "backfill_close"
    /\ lastOp' = Op("backfill", pod,
                    << InsertCall(uid, NewRow(uid, pod.namespace, NameOf(uid),
                                              pod.node, requests[1], requests[2],
                                              requests[3], start_iso)) >>)
    /\ UNCHANGED << exitCause, seen_running, finished_pods, resource_version,
                    guessed_end_time, snapshot, todo, buffer, cursor, realCloses >>

\* lines 120-167: one iteration of the backfill loop, up to its first store
\* call
ReconcileItem ==
    /\ pc = "backfill"
    /\ todo # {}
    /\ \E uid \in {First(todo)} :
       \E pod \in {snapshot[uid]} :
       \E requests \in {Requested(uid)}, start_iso \in {StartIso(pod)},
          w \in {ResolveEndTime(pod, guessed_end_time[1])} :
          IF IsIgnoredNamespace(pod.namespace) THEN SkipItem("ignored", uid, pod)
          ELSE IF requests = ValueError
          THEN \* raised out of startup_reconciliation and watch_loop
               /\ Dies("ValueError")
               /\ lastOp' = Op("error", pod, << >>)
               /\ UNCHANGED << db, realCloses >>
          ELSE IF pod.phase \in TERMINAL_PHASES /\ uid \notin finished_pods
          THEN IF uid \in seen_running THEN StaleItem(uid, pod, w)
               ELSE IF start_iso = None THEN SkipItem("no_start", uid, pod)
               ELSE BackfillInsert(uid, pod, requests, start_iso)
          ELSE SkipItem("no_action", uid, pod)
    /\ UNCHANGED << malformed, clock, pods, log, starts >>

\* lines 157-167: the backfill branch closes the record it inserted
ReconcileBackfillClose ==
    /\ pc = "backfill_close"
    /\ \E uid \in {pending[1]} :
       \E pod \in {snapshot[uid]} :
       \E w \in {ResolveEndTime(pod, guessed_end_time[1])} :
          /\ db' = UpdatePodEndTime(db, uid, w.end_time, w.guessed)
          /\ realCloses' = Counted(uid, w.guessed)
          /\ finished_pods' = finished_pods \cup {uid}
          /\ todo' = todo \ {uid}
          /\ lastOp' = Op("backfill", pod, << UpdateCall(uid, w.end_time, w.guessed) >>)
    /\ pending' = None
    /\ pc' = "backfill"
    /\ UNCHANGED << malformed, clock, pods, log, exitCause, starts, seen_running,
                    resource_version, guessed_end_time, snapshot, buffer, cursor >>

\* line 168: return seen_running, finished_pods, initial_resource_version
ReconcileReturn ==
    /\ pc = "backfill"
    /\ todo = {}
    /\ pc' = "returned"
    /\ lastOp' = NoOp
    /\ UNCHANGED << malformed, clock, pods, log, exitCause, starts, db, seen_running,
                    finished_pods, resource_version, guessed_end_time, snapshot,
                    todo, pending, buffer, cursor, realCloses >>

-----------------------------------------------------------------------------
(* src/src/watcher.py: watch_loop *)

\* lines 173-176: the reconciliation has returned, the loop is entered
WatchLoopEnter ==
    /\ pc = "returned"
    /\ pc' = "subscribe"
    /\ snapshot' = << >>
    /\ guessed_end_time' = None
    /\ lastOp' = NoOp
    /\ UNCHANGED << malformed, clock, pods, log, exitCause, starts, db, seen_running,
                    finished_pods, resource_version, todo, pending, buffer,
                    cursor, realCloses >>

RECURSIVE AddedEvents(_)
\* the ADDED events that open a subscription with no resource version: one
\* per pod of the cluster, in its current state
AddedEvents(us) ==
    IF us = << >> THEN << >>
    ELSE << Event("ADDED", pods[Head(us)]) >> \o AddedEvents(Tail(us))

\* lines 177-183: w.stream(.., resource_version=resource_version) opens a
\* subscription: after the given version, or at the current state
Subscribe ==
    /\ pc = "subscribe"
    /\ pc' = "stream"
    /\ IF resource_version = RvUnknown
       THEN /\ buffer' = AddedEvents(Listed(DOMAIN ClusterPodsMap))
            /\ cursor' = Len(log)
       ELSE /\ buffer' = << >>
            /\ cursor' = resource_version[1]
    /\ lastOp' = NoOp
    /\ UNCHANGED << malformed, clock, pods, log, exitCause, starts, db, seen_running,
                    finished_pods, resource_version, guessed_end_time, snapshot,
                    todo, pending, realCloses >>

\* the subscription has an event to deliver
HasEvent == buffer # << >> \/ cursor < Len(log)

NextEvent == IF buffer # << >> THEN Head(buffer) ELSE log[cursor + 1]

\* the subscription moves past the event it delivered
Consumed ==
    IF buffer # << >>
    THEN buffer' = Tail(buffer) /\ cursor' = cursor
    ELSE buffer' = buffer /\ cursor' = cursor + 1

\* the start-billing test without `node is not None`
StartsBillingUnscheduled(etype, pod) ==
    /\ etype \in {"ADDED", "MODIFIED"}
    /\ pod.start_time # None
    /\ pod.uid \notin seen_running
    /\ pod.phase \in STARTING_PHASES

\* lines 204-210
StartsBilling(etype, pod) ==
    /\ etype \in {"ADDED", "MODIFIED"}
    /\ pod.start_time # None
    /\ pod.node # None
    /\ pod.uid \notin seen_running
    /\ pod.phase \in STARTING_PHASES

\* the stop-billing test with the change kind ADDED for MODIFIED
StopsBillingOnAdded(etype, pod) ==
    etype = "ADDED" /\ pod.uid \in seen_running /\ pod.phase \in TERMINAL_PHASES

\* lines 218-220
StopsBilling(etype, pod) ==
    etype = "MODIFIED" /\ pod.uid \in seen_running /\ pod.phase \in TERMINAL_PHASES

\* the removal test without `uid in seen_running`
DeletedAnyPod(etype, pod) == etype = "DELETED"

\* line 235
DeletedWhileRunning(etype, pod) ==
    etype = "DELETED" /\ pod.uid \in seen_running

\* line 193 and lines 244-245: the event changes nothing
IgnoreEvent(branch, pod) ==
    /\ Consumed
    /\ lastOp' = Op(branch, pod, << >>)
    /\ UNCHANGED << pc, db, seen_running, finished_pods, resource_version,
                    realCloses >>

\* lines 211-213: the store write of the start-billing branch
StartBillingWrite(pod, requests, start_iso) ==
    /\ db' = InsertNewPod(db, pod.uid, pod.namespace, NameOf(pod.uid), pod.node,
                          requests[1], requests[2], requests[3], start_iso)
    /\ lastOp' = Op("start", pod,
                    << InsertCall(pod.uid,
                                  NewRow(pod.uid, pod.namespace, NameOf(pod.uid),
                                         pod.node, requests[1], requests[2],
                                         requests[3], start_iso)) >>)
    /\ UNCHANGED realCloses

\* line 214: seen_running.add(uid)
StartBillingIndex(uid) ==
    /\ seen_running' = seen_running \cup {uid}
    /\ UNCHANGED finished_pods

\* lines 211-215: the start-billing branch
StartBilling(pod, requests, start_iso) ==
    /\ Consumed
    /\ StartBillingWrite(pod, requests, start_iso)
    /\ StartBillingIndex(pod.uid)
    /\ UNCHANGED << pc, resource_version >>

\* lines 227-229 and lines 238-240: the store write of the two closing
\* branches
CloseBillingWrite(branch, pod, end_time, guessed) ==
    /\ db' = UpdatePodEndTime(db, pod.uid, end_time, guessed)
    /\ realCloses' = Counted(pod.uid, guessed)
    /\ lastOp' = Op(branch, pod, << UpdateCall(pod.uid, end_time, guessed) >>)

\* lines 230-231 and lines 241-242: seen_running.discard(uid) and
\* finished_pods.add(uid)
CloseBillingIndex(uid) ==
    /\ seen_running' = seen_running \ {uid}
    /\ finished_pods' = finished_pods \cup {uid}

\* lines 227-232 and lines 238-243: the record is closed and the uid moves
\* from seen_running to finished_pods
CloseBilling(branch, pod, end_time, guessed) ==
    /\ Consumed
    /\ CloseBillingWrite(branch, pod, end_time, guessed)
    /\ CloseBillingIndex(pod.uid)
    /\ UNCHANGED << pc, resource_version >>

\* lines 184-245: one iteration of the for loop, on the event the
\* subscription delivers
HandleEvent ==
    /\ pc = "stream"
    /\ HasEvent
    /\ \E event \in {NextEvent} :
       \E pod \in {event.object}, etype \in {event.type} :
       \E requests \in {Requested(pod.uid)}, start_iso \in {StartIso(pod)},
          w \in {ResolveEndTime(pod, NowUtcIso)} :
          IF IsIgnoredNamespace(pod.namespace) THEN IgnoreEvent("ignored", pod)
          ELSE IF requests = ValueError
          THEN \* caught by except Exception (lines 253-256)
               /\ pc' = "subscribe"
               /\ resource_version' = RvUnknown
               /\ buffer' = << >>
               /\ cursor' = 0
               /\ lastOp' = Op("error", pod, << >>)
               /\ UNCHANGED << db, seen_running, finished_pods, realCloses >>
          ELSE IF StartsBilling(etype, pod)
          THEN StartBilling(pod, requests, start_iso)
          ELSE IF StopsBilling(etype, pod)
          THEN CloseBilling("stop", pod, w.end_time, w.guessed)
          ELSE IF DeletedWhileRunning(etype, pod)
          THEN CloseBilling("deleted", pod, Some(NowUtcIso), TRUE)
          ELSE IgnoreEvent("no_action", pod)
    /\ UNCHANGED << malformed, clock, pods, log, exitCause, starts, guessed_end_time,
                    snapshot, todo, pending >>

LoopFrame ==
    UNCHANGED << malformed, clock, pods, log, exitCause, starts, db, seen_running,
                 finished_pods, guessed_end_time, snapshot, todo, pending,
                 realCloses >>

\* the for loop ends without an exception (timeout_seconds has elapsed or
\* the server closed the connection): back to line 176 with the same
\* resource_version
StreamEnds ==
    /\ pc = "stream"
    /\ pc' = "subscribe"
    /\ buffer' = << >>
    /\ cursor' = 0
    /\ lastOp' = NoOp
    /\ UNCHANGED resource_version
    /\ LoopFrame

\* the statuses line 248 recovers from
RecoveredStatuses == {410, 504}

\* the statuses of an ApiException the feed can raise
ApiStatuses == {410, 500, 504}

\* lines 246-252: the feed raises ApiException(status)
FeedApiException(status) ==
    /\ pc = "stream"
    /\ lastOp' = NoOp
    /\ IF status \in RecoveredStatuses
       THEN /\ resource_version' = RvUnknown
            /\ pc' = "subscribe"
            /\ buffer' = << >>
            /\ cursor' = 0
            /\ LoopFrame
       ELSE \* raise: no handler in watch_loop or main
            /\ Dies("ApiException")
            /\ UNCHANGED << malformed, clock, pods, log, starts, db, realCloses >>

\* lines 253-256: the feed raises any other exception
FeedException ==
    /\ pc = "stream"
    /\ resource_version' = RvUnknown
    /\ pc' = "subscribe"
    /\ buffer' = << >>
    /\ cursor' = 0
    /\ lastOp' = NoOp
    /\ LoopFrame

-----------------------------------------------------------------------------
(* The specification *)

\* the process has not started and the store is empty
NoProcess ==
    /\ clock = 0
    /\ log = << >>
    /\ pc = "stopped"
    /\ exitCause = "none"
    /\ starts = 0
    /\ db = {}
    /\ seen_running = {}
    /\ finished_pods = {}
    /\ resource_version = RvUnknown
    /\ guessed_end_time = None
    /\ snapshot = << >>
    /\ todo = {}
    /\ pending = None
    /\ buffer = << >>
    /\ cursor = 0
    /\ lastOp = NoOp
    /\ realCloses = [u \in Uids |-> 0]

\* the process has not started, the cluster and the store are empty
Unstarted == NoProcess /\ pods = [u \in Uids |-> Absent("NotCreated")]

\* the states of a pod that ran and reached a terminal phase before the
\* tracker was first started
LatePods(u) ==
    UNION { { PodObject(u, TrackedNamespace, ph, Some(NodeName), Some(Dt(0, 0)),
                        s.cs, s.ics) : s \in TerminalStatuses(0, ph) } :
            ph \in TERMINAL_PHASES }

\* the tracker is first started on a cluster where one pod has already run
\* and finished
InitLate ==
    /\ NoProcess
    /\ malformed = {}
    /\ \E late \in LatePods("u1") :
          pods = [u \in Uids |-> IF u = "u1" THEN late ELSE Absent("NotCreated")]

\* every pod spec parses
Init == Unstarted /\ malformed = {}

\* one of the two pods has a spec that does not parse
InitErr == Unstarted /\ malformed \in { {u} : u \in Uids }

Cluster ==
    \E u \in Uids :
        \/ CreatePod(u)
        \/ BindPod(u)
        \/ StartPod(u)
        \/ RunPod(u)
        \/ TerminatePod(u)
        \/ DeletePod(u)

Next ==
    \/ Cluster
    \/ Tick
    \/ ReconcileBegin
    \/ ReconcileZombies
    \/ ReconcileItem
    \/ ReconcileBackfillClose
    \/ ReconcileReturn
    \/ WatchLoopEnter
    \/ Subscribe
    \/ HandleEvent
    \/ StreamEnds
    \/ \E status \in ApiStatuses : FeedApiException(status)
    \/ FeedException
    \/ Shutdown

Spec == Init /\ [][Next]_vars

SpecErr == InitErr /\ [][Next]_vars

SpecLate == InitLate /\ [][Next]_vars

-----------------------------------------------------------------------------
(* Signals: handle_interrupt raises KeyboardInterrupt in the main thread at *)
(* whatever statement is executing, so an iteration of the for loop of      *)
(* watch_loop that writes to the store is two steps, the store write and    *)
(* the update of the in-memory sets, with Shutdown enabled between them     *)

\* an iteration that makes no store call
HandleEventNoWrite == HandleEvent /\ lastOp'.calls = << >>

\* lines 184-229 and 235-240: up to the return of the store call
HandleEventWrite ==
    /\ pc = "stream"
    /\ HasEvent
    /\ \E event \in {NextEvent} :
       \E pod \in {event.object}, etype \in {event.type} :
       \E requests \in {Requested(pod.uid)}, start_iso \in {StartIso(pod)},
          w \in {ResolveEndTime(pod, NowUtcIso)} :
          /\ ~IsIgnoredNamespace(pod.namespace)
          /\ requests # ValueError
          /\ IF StartsBilling(etype, pod)
             THEN StartBillingWrite(pod, requests, start_iso)
             ELSE IF StopsBilling(etype, pod)
             THEN CloseBillingWrite("stop", pod, w.end_time, w.guessed)
             ELSE /\ DeletedWhileRunning(etype, pod)
                  /\ CloseBillingWrite("deleted", pod, Some(NowUtcIso), TRUE)
    /\ pc' = "written"
    /\ UNCHANGED << malformed, clock, pods, log, exitCause, starts, seen_running,
                    finished_pods, resource_version, guessed_end_time, snapshot,
                    todo, pending, buffer, cursor >>

\* lines 214-215, 230-232 and 241-243: the in-memory sets follow the store
\* call and the loop takes the next event
HandleEventIndex ==
    /\ pc = "written"
    /\ pc' = "stream"
    /\ Consumed
    /\ IF lastOp.branch = "start" THEN StartBillingIndex(lastOp.object.uid)
       ELSE CloseBillingIndex(lastOp.object.uid)
    /\ UNCHANGED << malformed, clock, pods, log, exitCause, starts, db, resource_version,
                    guessed_end_time, snapshot, todo, pending, lastOp, realCloses >>

NextSignal ==
    \/ Cluster
    \/ Tick
    \/ ReconcileBegin
    \/ ReconcileZombies
    \/ ReconcileItem
    \/ ReconcileBackfillClose
    \/ ReconcileReturn
    \/ WatchLoopEnter
    \/ Subscribe
    \/ HandleEventNoWrite
    \/ HandleEventWrite
    \/ HandleEventIndex
    \/ StreamEnds
    \/ \E status \in ApiStatuses : FeedApiException(status)
    \/ FeedException
    \/ Shutdown

SpecSignal == Init /\ [][NextSignal]_vars

\* a step of the running process: the loops of startup_reconciliation and
\* watch_loop do not block
ProcessStep ==
    \/ ReconcileItem
    \/ ReconcileBackfillClose
    \/ ReconcileReturn
    \/ WatchLoopEnter
    \/ Subscribe
    \/ HandleEvent

\* a subscription ends while it still has an event to deliver
CutShort == StreamEnds /\ HasEvent

\* The scheduling: a running process keeps taking its steps, and the
\* subscriptions are not cut short for ever (the for loop handles an event
\* as soon as it is delivered; a subscription lasts STREAM_TIMEOUT seconds).
\* The cluster, the feed's errors, the signals and the restarts are under no
\* obligation.
Fairness ==
    /\ WF_vars(ProcessStep)
    /\ <>[][~CutShort]_vars

SpecLive == Init /\ [][Next]_vars /\ Fairness

-----------------------------------------------------------------------------
(* The store driven directly: any sequence of insert_new_pod and           *)
(* update_pod_end_time calls                                               *)

StoreTimes == { Isoformat(Dt(t, 0)) : t \in 0..1 }

StoreFrame ==
    UNCHANGED << malformed, clock, pods, log, pc, exitCause, starts, seen_running,
                 finished_pods, resource_version, guessed_end_time, snapshot,
                 todo, pending, buffer, cursor, realCloses >>

StoreInsert ==
    \E uid \in Uids, node \in {None, Some(NodeName)}, cpu \in {0, 500},
       start \in StoreTimes :
        /\ db' = InsertNewPod(db, uid, TrackedNamespace, NameOf(uid), node,
                              cpu, 0, 0, Some(start))
        /\ lastOp' = Op("store_insert", Absent("NotCreated"),
                        << InsertCall(uid, NewRow(uid, TrackedNamespace, NameOf(uid),
                                                  node, cpu, 0, 0, Some(start))) >>)
        /\ StoreFrame

StoreUpdate ==
    \E uid \in Uids, end_time \in StoreTimes, guessed \in BOOLEAN :
        /\ db' = UpdatePodEndTime(db, uid, Some(end_time), guessed)
        /\ lastOp' = Op("store_update", Absent("NotCreated"),
                        << UpdateCall(uid, Some(end_time), guessed) >>)
        /\ StoreFrame

NextStore == StoreInsert \/ StoreUpdate

SpecStore == Init /\ [][NextStore]_vars

-----------------------------------------------------------------------------
(* The watch loop driven directly: the feed delivers any event about the   *)
(* pods, in any order, to a loop that started on an empty cluster with an  *)
(* empty store                                                             *)

\* the states an event can report a pod in: any phase, with or without a
\* node, a start time and finished_at timestamps; its namespace is the one
\* it was created in
FeedPods(u) ==
    UNION { { PodObject(u, pods[u].namespace, ph, n, st, cs, << >>) :
                n \in {None, Some(NodeName)},
                st \in {None, Some(Dt(0, 0))},
                cs \in IF ph \in TERMINAL_PHASES
                       THEN { << >>, << Some(Dt(0, 0)) >> } ELSE { << >> } } :
            ph \in STARTING_PHASES \cup TERMINAL_PHASES }

FeedFrame ==
    UNCHANGED << malformed, clock, pods, log, pc, exitCause, starts, db, seen_running,
                 finished_pods, resource_version, guessed_end_time, snapshot,
                 todo, pending, cursor, realCloses >>

\* lines 179-183: w.stream yields the next event
FeedDelivers ==
    /\ pc = "stream"
    /\ buffer = << >>
    /\ \E u \in Uids, t \in {"ADDED", "MODIFIED", "DELETED"} :
         \E o \in FeedPods(u) : buffer' = << Event(t, o) >>
    /\ lastOp' = NoOp
    /\ FeedFrame

\* the loop is streaming, after a startup on an empty cluster and an empty
\* store; each pod has the namespace it will be created in
InitFeed ==
    /\ clock = 0
    /\ pods \in { [u \in Uids |-> PodObject(u, ns[u], "NotCreated", None, None,
                                            << >>, << >>)] :
                    ns \in [Uids -> Namespaces] }
    /\ log = << >>
    /\ pc = "stream"
    /\ exitCause = "none"
    /\ starts = 1
    /\ db = {}
    /\ seen_running = {}
    /\ finished_pods = {}
    /\ resource_version = Rv(0)
    /\ guessed_end_time = None
    /\ snapshot = << >>
    /\ todo = {}
    /\ pending = None
    /\ buffer = << >>
    /\ cursor = 0
    /\ lastOp = NoOp
    /\ realCloses = [u \in Uids |-> 0]
    /\ malformed = {}

NextFeed == FeedDelivers \/ HandleEvent \/ Tick

SpecFeed == InitFeed /\ [][NextFeed]_vars

-----------------------------------------------------------------------------
(* Vocabulary of the claims *)

\* the store has a record for the uid / a closed record
HasRecord(rows, uid) == \E r \in rows : r.uid = uid

Closed(rows, uid) == \E r \in rows : r.uid = uid /\ r.end_time # None

\* the step handles one feed event and the loop goes on to the next
Handled ==
    /\ pc = "stream" /\ pc' = "stream" /\ HasEvent
    /\ IF buffer # << >> THEN buffer' = Tail(buffer) ELSE cursor' = cursor + 1

\* the update_pod_end_time calls of an Op
UpdateCalls(op) ==
    { op.calls[i] : i \in { j \in 1..Len(op.calls) : op.calls[j].op = "update_pod_end_time" } }

\* the insert_new_pod calls of an Op
InsertCalls(op) ==
    { op.calls[i] : i \in { j \in 1..Len(op.calls) : op.calls[j].op = "insert_new_pod" } }

\* the finished_at timestamps the statuses of a pod carry
FinishedAts(pod) ==
    { AllStatuses(pod)[i][1] :
        i \in { j \in 1..Len(AllStatuses(pod)) : AllStatuses(pod)[j] # None } }

-----------------------------------------------------------------------------
(* C1. No double billing: for every pod uid, watch_loop and                *)
(* startup_reconciliation together call                                    *)
(* update_pod_end_time(uid, end_time, guessed=False) at most once.         *)
C1_NoDoubleBilling == \A u \in Uids : realCloses[u] <= 1

(* C2. Once a record's end_time is non-NULL, no later step changes its     *)
(* (end_time, end_time_guessed) pair.                                      *)
C2_ClosedNeverRewritten ==
    [][ \A r \in db : r.end_time # None =>
          \E q \in db' : /\ q.uid = r.uid
                         /\ q.end_time = r.end_time
                         /\ q.end_time_guessed = r.end_time_guessed ]_vars

(* C4. Between two event-processing iterations of watch_loop, and when     *)
(* startup_reconciliation has returned, seen_running is the set of uids    *)
(* get_running_pods returns.                                               *)
C4_IndexStoreAgreement ==
    pc \in {"returned", "subscribe", "stream"} => seen_running = GetRunningPods(db)

(* C5. seen_running and finished_pods are disjoint in every state: a uid   *)
(* that has entered finished_pods is never in seen_running again.          *)
C5_SettledIsTerminal == seen_running \cap finished_pods = {}


(* C6. Coverage after startup, as claimed: when startup_reconciliation     *)
(* returns, every pod of the snapshot whose phase is terminal has a        *)
(* closed record in the store.                                             *)
C6_CoverageAllTerminal ==
    pc = "returned" =>
        \A u \in DOMAIN snapshot :
            snapshot[u].phase \in TERMINAL_PHASES => Closed(db, u)

(* C6, amended. When startup_reconciliation returns, every pod of the      *)
(* snapshot that is outside the ignored namespaces, is in a terminal       *)
(* phase and has a start time has a closed record in the store.            *)
C6_CoverageBillable ==
    pc = "returned" =>
        \A u \in DOMAIN snapshot :
            ( /\ snapshot[u].phase \in TERMINAL_PHASES
              /\ ~IsIgnoredNamespace(snapshot[u].namespace)
              /\ snapshot[u].start_time # None ) => Closed(db, u)

\* the pass has returned with a terminal, started pod of the snapshot closed
\* by its backfill branch, the pod being outside the ignored namespaces
C6_Witness ==
    /\ pc = "returned"
    /\ \E u \in DOMAIN snapshot :
         /\ snapshot[u].phase \in TERMINAL_PHASES
         /\ ~IsIgnoredNamespace(snapshot[u].namespace)
         /\ snapshot[u].start_time # None
         /\ Closed(db, u)
         /\ u \notin seen_running
         /\ u \in finished_pods

(* C7. Zombie closing: a startup that finds uids open in the store and     *)
(* absent from the snapshot goes on to the backfill loop with each such    *)
(* record closed, end_time the instant of the pass, end_time_guessed 1,    *)
(* the uid out of seen_running and in finished_pods.                       *)
C7_ZombiesClosed ==
    [][ (pc = "stopped" /\ starts' = starts + 1) =>
          \A u \in GetRunningPods(db) \ DOMAIN ClusterPodsMap :
              /\ pc' = "backfill"
              /\ \E r \in db' : /\ r.uid = u
                                /\ r.end_time = Some(NowUtcIso)
                                /\ r.end_time_guessed = 1
              /\ u \notin seen_running'
              /\ u \in finished_pods' ]_vars

(* C8. End-time preference: when the stop-billing branch of watch_loop or  *)
(* the stale or backfill branch of startup_reconciliation closes a record  *)
(* and a status of the pod carries a finished_at, the record holds the     *)
(* latest finished_at, in UTC, with end_time_guessed 0; it holds an        *)
(* estimate, with end_time_guessed 1, only when no status carries one.     *)
C8_EndTimePreference ==
    lastOp.branch \in {"stop", "stale", "backfill"} =>
        \A c \in UpdateCalls(lastOp) :
            \E r \in db :
                /\ r.uid = c.uid
                /\ IF FinishedAts(lastOp.object) # {}
                   THEN /\ r.end_time_guessed = 0
                        /\ \E d \in FinishedAts(lastOp.object) :
                             /\ \A e \in FinishedAts(lastOp.object) :
                                    Instant(e) <= Instant(d)
                             /\ r.end_time = Some(<< Instant(d), 0 >>)
                   ELSE r.end_time_guessed = 1 /\ r.end_time # None

\* the stop-billing branch has closed a record from two finished_at
\* timestamps whose order by wall reading and by instant differ
C8_Witness ==
    /\ lastOp.branch = "stop"
    /\ UpdateCalls(lastOp) # {}
    /\ \E d, e \in FinishedAts(lastOp.object) :
         Instant(d) > Instant(e) /\ d.local < e.local

(* C9. Idempotent create: the store holds at most one record per uid, and  *)
(* insert_new_pod with a uid that has a record leaves the table as it is.  *)
C9_IdempotentCreate ==
    [][ /\ \A r, q \in db' : r.uid = q.uid => r = q
        /\ \A c \in InsertCalls(lastOp') : HasRecord(db, c.uid) => db' = db ]_vars

\* insert_new_pod was called with a uid whose record is closed and differs
\* from the row passed in its other fields too
C9_Witness ==
    /\ lastOp.branch = "store_insert"
    /\ \E c \in InsertCalls(lastOp) :
         \E r \in db : /\ r.uid = c.uid
                       /\ r.end_time # None
                       /\ r.cpu # c.row.cpu
                       /\ r.start_time # c.row.start_time
                       /\ r.node # c.row.node

(* C10. Stop-billing trigger: handling an ADDED or MODIFIED event whose    *)
(* uid is in seen_running and whose phase is terminal closes the record,   *)
(* takes the uid out of seen_running and puts it in finished_pods.         *)
C10_StopOnAddedOrModified ==
    [][ ( /\ Handled
          /\ NextEvent.type \in {"ADDED", "MODIFIED"}
          /\ NextEvent.object.uid \in seen_running
          /\ NextEvent.object.phase \in TERMINAL_PHASES )
        => /\ Closed(db', NextEvent.object.uid)
           /\ NextEvent.object.uid \notin seen_running'
           /\ NextEvent.object.uid \in finished_pods' ]_vars


-----------------------------------------------------------------------------
\* the record of the uid is open, the watch loop is running, and the pod has
\* reached a terminal phase or has been removed from the cluster
OpenAfterEnd(u) ==
    /\ pc \in {"subscribe", "stream"}
    /\ u \in GetRunningPods(db)
    /\ pods[u].phase \in TERMINAL_PHASES \cup {"Deleted"}

(* C3. No billing window stays open forever, as claimed: an open record    *)
(* whose pod has reached a terminal phase or has been removed is           *)
(* eventually closed by the running watch loop, whatever the feed does     *)
(* (cut, timeout, 410/504).                                                *)
C3_EventuallyClosed ==
    \A u \in Uids : OpenAfterEnd(u) ~> (Closed(db, u) \/ pc = "stopped")

(* C3, amended. An open record whose pod has reached a terminal phase or   *)
(* has been removed is eventually closed by the running watch loop in      *)
(* every execution in which the feed is cut or times out but no feed       *)
(* error resets the resource version.                                      *)
C3_EventuallyClosedUnlessReset ==
    \A u \in Uids :
        (OpenAfterEnd(u) /\ resource_version # RvUnknown)
            ~> (Closed(db, u) \/ pc = "stopped" \/ resource_version = RvUnknown)

\* the watch loop, its resource version never reset, has closed the record
\* of a pod on the event that reports its terminal phase or its removal
C3_Witness ==
    /\ pc = "stream"
    /\ resource_version # RvUnknown
    /\ lastOp.branch \in {"stop", "deleted"}
    /\ UpdateCalls(lastOp) # {}
    /\ \A c \in UpdateCalls(lastOp) :
         Closed(db, c.uid) /\ pods[c.uid].phase \in TERMINAL_PHASES \cup {"Deleted"}

-----------------------------------------------------------------------------
(* C12. No re-application across resubscription: the resource version      *)
(* watch_loop passes to the feed advances with the events it consumes, so  *)
(* that a resubscription resumes after the last event handled: once an     *)
(* event of the change log is handled, resource_version is its position.   *)
C12_ResourceVersionAdvances ==
    [][ (Handled /\ buffer = << >>) => resource_version' = Rv(cursor + 1) ]_vars

(* C18. The coordinator never exits on a feed error: whatever error the    *)
(* feed raises, an API error of any status code included, watch_loop       *)
(* resets the resource version and resubscribes; the running loop stops    *)
(* only on an external shutdown signal.                                    *)
C18_ExitsOnlyOnSignal ==
    [][ (pc \in {"subscribe", "stream"} /\ pc' = "stopped")
            => exitCause' = "KeyboardInterrupt" ]_vars

(* C20. Reconciliation output matches the store: when                      *)
(* startup_reconciliation returns, seen_running and finished_pods are      *)
(* disjoint, seen_running is the set of uids of the open records,          *)
(* finished_pods the set of uids of the closed records, and every uid of   *)
(* seen_running is in the snapshot with a non-terminal phase.              *)
C20_ReturnedSetsMatchStore ==
    pc = "returned" =>
        /\ seen_running \cap finished_pods = {}
        /\ seen_running = { r.uid : r \in { x \in db : x.end_time = None } }
        /\ finished_pods = { r.uid : r \in { x \in db : x.end_time # None } }
        /\ \A u \in seen_running :
               u \in DOMAIN snapshot /\ snapshot[u].phase \notin TERMINAL_PHASES

\* a restart has returned with the pod it tracked before still running and
\* still in seen_running
C20_Witness ==
    /\ pc = "returned"
    /\ starts = 2
    /\ seen_running # {}
    /\ \A u \in seen_running : snapshot[u].phase \in STARTING_PHASES

-----------------------------------------------------------------------------
\* the uids that have a record
RecordedUids(rows) == { r.uid : r \in rows }

C14_RemovalEstimate ==
    [][ (Handled /\ NextEvent.type = "DELETED") =>
          IF NextEvent.object.uid \in seen_running
          THEN /\ \E r \in db' : /\ r.uid = NextEvent.object.uid
                                 /\ r.end_time = Some(<< clock, 0 >>)
                                 /\ r.end_time_guessed = 1
               /\ seen_running' = seen_running \ {NextEvent.object.uid}
               /\ finished_pods' = finished_pods \cup {NextEvent.object.uid}
          ELSE /\ db' = db
               /\ seen_running' = seen_running
               /\ finished_pods' = finished_pods ]_vars

\* the removal branch has closed, with an estimate later than the
\* finished_at the removed object carries, the record of a pod
C14_Witness ==
    /\ lastOp.branch = "deleted"
    /\ FinishedAts(lastOp.object) # {}
    /\ \E r \in db : /\ r.uid = lastOp.object.uid
                     /\ r.end_time = Some(<< 1, 0 >>)
                     /\ r.end_time_guessed = 1
    /\ lastOp.object.uid \in finished_pods \ seen_running

-----------------------------------------------------------------------------
\* the step is one iteration of the backfill loop of startup_reconciliation
ItemStep ==
    /\ pc = "backfill" /\ todo # {}
    /\ pc' \in {"backfill", "backfill_close"}
    /\ todo' # todo \/ pc' # pc

(* C15. Namespace exclusion leaves state unchanged: an event of the watch  *)
(* loop, or an item of the snapshot in the backfill loop, whose namespace  *)
(* is openshift-monitoring (prefix openshift-) causes no store write and   *)
(* no change of seen_running or finished_pods, whatever its change kind    *)
(* and phase.                                                              *)
C15_IgnoredNamespaceFrame ==
    [][ ( \/ Handled /\ NextEvent.object.namespace \in Namespaces \ {TrackedNamespace}
          \/ ItemStep /\ snapshot[First(todo)].namespace
                            \in Namespaces \ {TrackedNamespace} )
          => /\ db' = db
             /\ seen_running' = seen_running
             /\ finished_pods' = finished_pods
             /\ lastOp'.calls = << >> ]_vars

\* the watch loop has dropped an event of an ignored namespace that reports
\* a pod holding resources, and the store is empty
C15_Witness ==
    /\ pc = "stream"
    /\ lastOp.branch = "ignored"
    /\ lastOp.object.namespace # TrackedNamespace
    /\ lastOp.object.node # None
    /\ lastOp.object.start_time # None
    /\ lastOp.object.phase \in STARTING_PHASES
    /\ db = {}

\* a step in which computing the data of one pod raised an error
ErrorStep ==
    /\ lastOp'.branch = "error"
    /\ pc' # pc \/ todo' # todo \/ buffer' # buffer \/ cursor' # cursor

(* C17. Per-item error containment: when effective_pod_requests raises a   *)
(* parse error for one pod, that pod alone is skipped: nothing is written, *)
(* the backfill loop moves on to the next snapshot item, and the watch     *)
(* loop moves on to the next event of the same stream.                     *)
C17_ErrorContained ==
    [][ ErrorStep =>
          /\ db' = db /\ seen_running' = seen_running /\ finished_pods' = finished_pods
          /\ pc = "backfill" => pc' = "backfill" /\ todo' = todo \ {First(todo)}
          /\ pc = "stream" => Handled /\ resource_version' = resource_version ]_vars

(* C19. Shutdown takes effect only between event-processing iterations:    *)
(* the process never exits on SIGINT or SIGTERM from the point where the   *)
(* store write of an event has happened and the matching update of         *)
(* seen_running and finished_pods has not.                                 *)
C19_ShutdownBetweenEvents ==
    [][ (pc # "stopped" /\ pc' = "stopped" /\ exitCause' = "KeyboardInterrupt")
          => pc # "written" ]_vars

\* the item the backfill loop is about to take is a pod to backfill
BackfillCase(pod) ==
    /\ ~IsIgnoredNamespace(pod.namespace)
    /\ pod.phase \in TERMINAL_PHASES
    /\ ~HasRecord(db, pod.uid)
    /\ pod.start_time # None

\* the end time and the guessed flag the claim gives a backfilled record
BackfillEnd(pod) ==
    IF FinishedAts(pod) # {}
    THEN UpdateCall(pod.uid, GetPodFinishedTime(pod), FALSE)
    ELSE UpdateCall(pod.uid, guessed_end_time, TRUE)

\* the create of a backfill: the record carries the pod's start time and
\* effective requests, and is open
BackfillCreates ==
    (ItemStep /\ BackfillCase(snapshot[First(todo)])) =>
        \E pod \in {snapshot[First(todo)]} :
           /\ pc' = "backfill_close"
           /\ InsertCalls(lastOp') =
                 { InsertCall(pod.uid,
                              NewRow(pod.uid, pod.namespace, NameOf(pod.uid), pod.node,
                                     RequestsOf[pod.uid][1], RequestsOf[pod.uid][2],
                                     RequestsOf[pod.uid][3],
                                     Some(Isoformat(AsTimezoneUtc(pod.start_time[1]))))) }
           /\ HasRecord(db', pod.uid) /\ ~Closed(db', pod.uid)

\* the close of a backfill, in the same pass
BackfillCloses ==
    (pc = "backfill_close" /\ pc' = "backfill") =>
        \E pod \in {snapshot[pending[1]]} :
           /\ UpdateCalls(lastOp') = { BackfillEnd(pod) }
           /\ Closed(db', pod.uid)
           /\ pod.uid \in finished_pods'

\* the start that follows an exit taken between the create and the close
\* goes on to the backfill loop with the record in seen_running, and the
\* loop closes the record when it takes the pod
BackfillResumed ==
    /\ (pc = "stopped" /\ lastOp.branch = "interrupted" /\ starts' # starts) =>
          pc' = "backfill" /\ lastOp.object.uid \in seen_running'
    /\ (ItemStep /\ First(todo) \in seen_running
          /\ ~IsIgnoredNamespace(snapshot[First(todo)].namespace)
          /\ snapshot[First(todo)].phase \in TERMINAL_PHASES) =>
          Closed(db', First(todo))

(* C16. Backfill: for a non-excluded snapshot pod with a terminal phase,   *)
(* no record in the store and a start time, startup_reconciliation creates *)
(* a record with the pod's start time and effective requests and closes it *)
(* in the same pass, with the finished time when there is one and else     *)
(* with the reconciliation instant and end_time_guessed set; after an exit *)
(* between the create and the close, the next startup_reconciliation       *)
(* closes the open record.                                                 *)
C16_Backfill == [][ BackfillCreates /\ BackfillCloses /\ BackfillResumed ]_vars

\* the pod is outside the ignored namespaces and holds resources: a node is
\* assigned, the start time is set and the phase is Pending or Running
HoldsResources(u) ==
    /\ Exists(u)
    /\ ~IsIgnoredNamespace(pods[u].namespace)
    /\ pods[u].node # None
    /\ pods[u].start_time # None
    /\ pods[u].phase \in STARTING_PHASES

(* C11. Every tracked pod gets a record: a pod outside the ignored         *)
(* namespaces that holds resources while the watch loop runs eventually    *)
(* has a record in the store, unless the process stops first; this covers  *)
(* a pod that is already active in the startup snapshot and a pod that     *)
(* started while the feed was cut.                                         *)
C11_EveryTrackedPodRecorded ==
    \A u \in Uids :
        (HoldsResources(u) /\ pc \in {"subscribe", "stream"})
            ~> (HasRecord(db, u) \/ pc = "stopped")

=============================================================================
